---- MODULE Spec2Model ----
(***************************************************************************)
(* Model of run_passes.py: satellite resolution (make_satellite), the      *)
(* rise/culmination/set scan and the catalog (compute_passes), the         *)
(* aggregation and the artifact writes (make_outputs) and main.            *)
(*                                                                         *)
(* Units.  An instant is an integer number of ticks of 0.02 s since        *)
(* day 0, 00:00:00 UTC.  duration_s is held in tenths of a second (the     *)
(* code rounds it to one decimal), data_mb_est in hundredths of a MB (two  *)
(* decimals), aos_utc / los_utc in whole seconds (utc_iso() prints whole   *)
(* seconds), efficiency in percent.  Five ticks make one tenth, so a       *)
(* duration never lies exactly between two tenths and round(dur_s, 1) has  *)
(* no ties to break.                                                       *)
(*                                                                         *)
(* A name is a sequence of one-character strings, so that str.strip() can  *)
(* be modelled by what it does.                                            *)
(***************************************************************************)
EXTENDS Integers, Sequences, FiniteSets, TLC

VARIABLES cfg, propagator, pc, s, g, sat, times, events, i, rows, origin,
          df, passes_csv, daily_csv, daily_total, plots, stdout, err

vars == <<cfg, propagator, pc, s, g, sat, times, events, i, rows, origin,
          df, passes_csv, daily_csv, daily_total, plots, stdout, err>>

(***************************************************************************)
(* Bounds of the model.                                                    *)
(***************************************************************************)
MaxEvents == 6        \* longest event stream find_events returns for a pair
MaxSats == 2          \* longest cfg["satellites"]
MaxStations == 2      \* longest cfg["ground_stations"]
MaxCandidates == 3    \* most satellites a tle_url source returns

(***************************************************************************)
(* Units.                                                                  *)
(***************************************************************************)
TicksPerTenth == 2 + 3
TicksPerSecond == 10 * TicksPerTenth
SecondsPerDay == 24 * 3600
DayTicks == SecondsPerDay * TicksPerSecond

\* event codes: 0 = rise, 1 = culmination, 2 = set
RISE == 0
CULMINATION == 1
SET == 2
Kinds == {RISE, CULMINATION, SET}

(***************************************************************************)
(* Names and str.strip().                                                  *)
(***************************************************************************)
NameA == <<"A">>
NameB == <<"B">>
PadA == <<" ", "A">>
APad == <<"A", " ">>
EmptyName == <<>>
StationG1 == <<"G", "1">>
StationG2 == <<"G", "2">>

RECURSIVE lstrip(_)
lstrip(n) == IF n # <<>> /\ Head(n) = " " THEN lstrip(Tail(n)) ELSE n

RECURSIVE rstrip(_)
rstrip(n) ==
    IF n # <<>> /\ n[Len(n)] = " " THEN rstrip(SubSeq(n, 1, Len(n) - 1)) ELSE n

strip(n) == rstrip(lstrip(n))

(***************************************************************************)
(* Rounding and the conversions of compute_passes.                         *)
(***************************************************************************)
\* round(dur_s, 1): ticks -> tenths of a second, to the nearest tenth
Round1(d) == (d + 2) \div TicksPerTenth

\* Time.utc_iso(): the instant printed to the whole second, to the nearest
UtcIso(t) == (2 * t + TicksPerSecond) \div (2 * TicksPerSecond)

\* pd.to_datetime(aos_utc, utc=True): the printed second parsed back
ToDatetime(sec) == sec

\* .dt.date: the UTC calendar day of an instant given in seconds
DateOf(sec) == sec \div SecondsPerDay

\* mb_from_mbps(mbps, seconds, efficiency), then round(data_mb, 2):
\* (mbps * 1e6 / 8) * seconds * efficiency / 1e6 MB, in hundredths of a MB,
\* with seconds = d / TicksPerSecond and efficiency = eff / 100
mb_from_mbps(mbps, d, eff) ==
    LET num == mbps * d * eff
        den == 8 * TicksPerSecond
    IN  (2 * num + den) \div (2 * den)

\* the topocentric altitude the geometry collaborator samples at t_culm, in
\* hundredths of a degree: a function of the instant alone
Altitude(t) == 1000 + 100 * (t % 7)

(***************************************************************************)
(* The list append of rows.append(...).                                    *)
(***************************************************************************)
\* faulty variant: the row is inserted at the front
PrependRow(list, r) == <<r>> \o list

AppendRow(list, r) == Append(list, r)

(***************************************************************************)
(* make_satellite.                                                         *)
(***************************************************************************)
\* sat_cfg.get("name", default)
GetName(sat_cfg, default) == IF sat_cfg.has_name THEN sat_cfg.name ELSE default

\* faulty variant: the candidate's name compared without strip()
RECURSIVE FirstMatchUnstripped(_, _, _)
FirstMatchUnstripped(sats, target, k) ==
    IF k > Len(sats) THEN 0
    ELSE IF sats[k] = target THEN k
    ELSE FirstMatchUnstripped(sats, target, k + 1)

\* for s in sats: if s.name.strip() == target: return s  -- index of the
\* first candidate at or after k that matches, 0 when the loop falls through
RECURSIVE FirstMatch(_, _, _)
FirstMatch(sats, target, k) ==
    IF k > Len(sats) THEN 0
    ELSE IF strip(sats[k]) = target THEN k
    ELSE FirstMatch(sats, target, k + 1)

\* return sats[0] when no candidate matches
Fallback(sats) == 1

\* if not sats: raise RuntimeError
MakeSatelliteRaises(sat_cfg) == sat_cfg.has_url /\ sat_cfg.tle_file = <<>>

\* the satellite make_satellite returns: its name and, for a URL source, the
\* position of the returned object in the list the source gave (0: inline)
make_satellite(sat_cfg) ==
    IF sat_cfg.has_url
    THEN LET sats == sat_cfg.tle_file
         IN  IF Len(sats) = 1
             THEN [name |-> GetName(sat_cfg, sats[1]), entry |-> 1]
             ELSE LET target == strip(GetName(sat_cfg, EmptyName))
                      m == FirstMatch(sats, target, 1)
                      k == IF m # 0 THEN m ELSE Fallback(sats)
                  IN  [name |-> sats[k], entry |-> k]
    ELSE [name |-> sat_cfg.name, entry |-> 0]

NoSat == [name |-> EmptyName, entry |-> 0]

(***************************************************************************)
(* The event streams of the propagation collaborator (find_events).        *)
(***************************************************************************)
\* spacing of consecutive events: "regular" is chronological, "retrograde"
\* breaks the collaborator's contract (a set stamped before its rise)
RegularSteps == <<3, 3, 4, 4>>
RetrogradeSteps == <<4, 4, -7, 4>>
StepOf(profile, k) ==
    IF profile = "regular" THEN RegularSteps[((k - 1) % 4) + 1]
    ELSE RetrogradeSteps[((k - 1) % 4) + 1]

RECURSIVE Offset(_, _)
Offset(profile, k) ==
    IF k <= 1 THEN 0 ELSE Offset(profile, k - 1) + StepOf(profile, k - 1)

TimesOf(t0, profile, n) == [k \in 1..n |-> t0 + Offset(profile, k)]

\* a nominal stream is a window cut out of rise, culmination, set, rise, ...
NominalKinds(n, phase) == [k \in 1..n |-> (k - 1 + phase) % 3]

RECURSIVE KindSeqs(_)
KindSeqs(n) ==
    IF n = 0 THEN {<<>>}
    ELSE {Append(e, k) : e \in KindSeqs(n - 1), k \in Kinds}

Profiles(p) == IF p = "nominal" THEN {"regular"} ELSE {"regular", "retrograde"}

KindsOf(p, n) ==
    IF p = "nominal" THEN {NominalKinds(n, ph) : ph \in 0..2} ELSE KindSeqs(n)

\* every event of a stream lies in the analysis window [t0, t1]
InWindow(ts, t0, t1) == \A k \in 1..Len(ts) : t0 <= ts[k] /\ ts[k] <= t1

(***************************************************************************)
(* The scan of compute_passes.                                             *)
(***************************************************************************)

\* faulty variant: the lookahead bound off by one
LoopCondOffByOne(ev, c) == c < Len(ev) - 1

\* while i < len(events) - 2
LoopCond(ev, c) == c < Len(ev) - 2

\* events[i] == 0 and events[i + 1] == 1 and events[i + 2] == 2  (i from 0)
IsTriple(ev, c) ==
    ev[c + 1] = RISE /\ ev[c + 2] = CULMINATION /\ ev[c + 3] = SET

\* (t_set.utc_datetime() - t_rise.utc_datetime()).total_seconds(), in ticks
DurS(ts, c) == ts[c + 3] - ts[c + 1]

\* faulty variant: the filter comparison inverted
TooShortInverted(dur_s, min_dur_s) == dur_s > min_dur_s

\* if dur_s < min_dur_s
TooShort(dur_s, min_dur_s) == dur_s < min_dur_s

\* faulty variant: rigid grouping, a mismatch skips three events
AfterMismatchRigid(c) == c + 3

\* i += 3 after a matched triple, i += 1 otherwise
AfterTriple(c) == c + 3
AfterMismatch(c) == c + 1

TenColumns ==
    <<"satellite", "station", "mask_deg", "aos_utc", "los_utc", "duration_s",
      "max_elev_deg", "downlink_mbps", "efficiency", "data_mb_est">>

\* the dict appended to rows
PassRow(satellite, gs, ts, c, link) ==
    [satellite     |-> satellite.name,
     station       |-> gs.name,
     mask_deg      |-> gs.mask_deg,
     aos_utc       |-> UtcIso(ts[c + 1]),
     los_utc       |-> UtcIso(ts[c + 3]),
     duration_s    |-> Round1(DurS(ts, c)),
     max_elev_deg  |-> Altitude(ts[c + 2]),
     downlink_mbps |-> link.downlink_mbps,
     efficiency    |-> link.efficiency,
     data_mb_est   |-> mb_from_mbps(link.downlink_mbps, DurS(ts, c), link.efficiency)]

(***************************************************************************)
(* pd.DataFrame(rows) and the two derived columns.                         *)
(***************************************************************************)
EmptyFrame == [columns |-> <<>>, rows |-> <<>>]

DataFrame(list) ==
    IF list = <<>> THEN EmptyFrame ELSE [columns |-> TenColumns, rows |-> list]

\* faulty variant: tests "df is None", which no DataFrame satisfies
DfEmptyIsNone(frame) == FALSE

\* df.empty
DfEmpty(frame) == Len(frame.rows) = 0

WithColumn(r, aos_dt, date_utc) ==
    [satellite     |-> r.satellite,
     station       |-> r.station,
     mask_deg      |-> r.mask_deg,
     aos_utc       |-> r.aos_utc,
     los_utc       |-> r.los_utc,
     duration_s    |-> r.duration_s,
     max_elev_deg  |-> r.max_elev_deg,
     downlink_mbps |-> r.downlink_mbps,
     efficiency    |-> r.efficiency,
     data_mb_est   |-> r.data_mb_est,
     aos_dt        |-> aos_dt,
     date_utc      |-> date_utc]

\* df["aos_dt"] = pd.to_datetime(df["aos_utc"]); df["date_utc"] = ....dt.date
AddDateColumns(frame) ==
    [columns |-> frame.columns \o <<"aos_dt", "date_utc">>,
     rows    |-> [k \in 1..Len(frame.rows) |->
                    WithColumn(frame.rows[k],
                               ToDatetime(frame.rows[k].aos_utc),
                               DateOf(ToDatetime(frame.rows[k].aos_utc)))]]

(***************************************************************************)
(* DataFrame.to_csv(path, index=False): the header is the frame's columns, *)
(* each line holds a row's cells in column order.                          *)
(***************************************************************************)
to_csv(frame) ==
    [header |-> frame.columns,
     lines  |-> [k \in 1..Len(frame.rows) |->
                   [c \in 1..Len(frame.columns) |-> frame.rows[k][frame.columns[c]]]]]

NoFile == [header |-> <<>>, lines |-> <<>>]

(***************************************************************************)
(* groupby(...).agg(...): one output row per distinct key, keys sorted.    *)
(***************************************************************************)
CharCode(ch) ==
    CASE ch = " " -> 32
      [] ch = "1" -> 49
      [] ch = "2" -> 50
      [] ch = "A" -> 65
      [] ch = "B" -> 66
      [] ch = "G" -> 71
      [] OTHER -> 127

RECURSIVE NameLess(_, _)
NameLess(a, b) ==
    IF a = <<>> THEN b # <<>>
    ELSE IF b = <<>> THEN FALSE
    ELSE IF Head(a) # Head(b) THEN CharCode(Head(a)) < CharCode(Head(b))
    ELSE NameLess(Tail(a), Tail(b))

\* order of the (date_utc, satellite, station) keys
KeyLess(a, b) ==
    \/ a[1] < b[1]
    \/ a[1] = b[1] /\ NameLess(a[2], b[2])
    \/ a[1] = b[1] /\ a[2] = b[2] /\ NameLess(a[3], b[3])

RECURSIVE SortKeys(_)
SortKeys(K) ==
    IF K = {} THEN <<>>
    ELSE LET m == CHOOSE x \in K : \A y \in K \ {x} : KeyLess(x, y)
         IN  <<m>> \o SortKeys(K \ {m})

RECURSIVE SortDates(_)
SortDates(D) ==
    IF D = {} THEN <<>>
    ELSE LET m == CHOOSE x \in D : \A y \in D : x <= y
         IN  <<m>> \o SortDates(D \ {m})

RECURSIVE SumSeq(_)
SumSeq(q) == IF q = <<>> THEN 0 ELSE Head(q) + SumSeq(Tail(q))

\* the key df.groupby(["date_utc", "satellite", "station"]) gives a row
GroupKey(r) == <<r.date_utc, r.satellite, r.station>>

\* faulty variant: a group collects every row of its date
MembersByDate(frame_rows, key) == SelectSeq(frame_rows, LAMBDA r : r.date_utc = key[1])

\* the rows of a frame that fall in the group of key
Members(frame_rows, key) == SelectSeq(frame_rows, LAMBDA r : GroupKey(r) = key)

\* daily = df.groupby([...]).agg(total_contact_s, total_data_mb, passes)
Daily(frame) ==
    LET keys == SortKeys({GroupKey(frame.rows[k]) : k \in 1..Len(frame.rows)})
    IN  [n \in 1..Len(keys) |->
           LET m == Members(frame.rows, keys[n])
           IN  [date_utc        |-> keys[n][1],
                satellite       |-> keys[n][2],
                station         |-> keys[n][3],
                total_contact_s |-> SumSeq([k \in 1..Len(m) |-> m[k].duration_s]),
                total_data_mb   |-> SumSeq([k \in 1..Len(m) |-> m[k].data_mb_est]),
                passes          |-> Len(m)]]

\* daily_total = daily.groupby("date_utc").agg(sum, sum, sum)
DailyTotal(daily) ==
    LET dates == SortDates({daily[k].date_utc : k \in 1..Len(daily)})
    IN  [n \in 1..Len(dates) |->
           LET m == SelectSeq(daily, LAMBDA d : d.date_utc = dates[n])
           IN  [date_utc        |-> dates[n],
                total_contact_s |-> SumSeq([k \in 1..Len(m) |-> m[k].total_contact_s]),
                total_data_mb   |-> SumSeq([k \in 1..Len(m) |-> m[k].total_data_mb]),
                passes          |-> SumSeq([k \in 1..Len(m) |-> m[k].passes])]]

DailyColumns ==
    <<"date_utc", "satellite", "station", "total_contact_s", "total_data_mb", "passes">>

\* the two line plots: x = date_utc, y = total_contact_s / 60.0 and
\* y = total_data_mb (y kept as numerator and divisor)
Plots(total) ==
    <<[file |-> "daily_contact_time.png",
       x    |-> [k \in 1..Len(total) |-> total[k].date_utc],
       y    |-> [k \in 1..Len(total) |-> total[k].total_contact_s],
       per  |-> 60],
      [file |-> "daily_data_return.png",
       x    |-> [k \in 1..Len(total) |-> total[k].date_utc],
       y    |-> [k \in 1..Len(total) |-> total[k].total_data_mb],
       per  |-> 1]>>

(***************************************************************************)
(* Configurations (config.yml) and the world the run starts in.            *)
(***************************************************************************)
\* window lengths end_utc - start_utc: room for 3, for 4 and for many events
BriefWindow == TicksPerTenth + 1
ShortWindow == 2 * TicksPerTenth
LongWindow == 8 * TicksPerTenth
Windows == {BriefWindow, ShortWindow, LongWindow}

\* the configurations explored keep (number of pairs) * (window length)
\* within this budget: the more pairs, the shorter the window
WorkBudget == 2 * LongWindow

\* start_utc: midnight of day 0, or 0.54 s before midnight of day 1
Starts == {0, DayTicks - 27}

\* min_pass_duration_s in ticks: -0.1 s (the code accepts it), 0, 0.14 s
MinDurations == {-5, 0, 7}

Links == {[downlink_mbps |-> 10, efficiency |-> 80],
          [downlink_mbps |-> 8, efficiency |-> 50]}
DefaultLink == [downlink_mbps |-> 10, efficiency |-> 80]

Inline(n) == [has_name |-> TRUE, name |-> n, has_url |-> FALSE, tle_file |-> <<>>]
Url(n, src) == [has_name |-> TRUE, name |-> n, has_url |-> TRUE, tle_file |-> src]
UrlNoName(src) ==
    [has_name |-> FALSE, name |-> EmptyName, has_url |-> TRUE, tle_file |-> src]

Station(n, mask) == [name |-> n, mask_deg |-> mask]

RECURSIVE SeqsUpTo(_, _)
SeqsUpTo(S, n) ==
    IF n = 0 THEN {<<>>}
    ELSE SeqsUpTo(S, n - 1)
         \cup {Append(q, x) : q \in {r \in SeqsUpTo(S, n - 1) : Len(r) = n - 1}, x \in S}

\* the satellites a tle_url source may return
Sources == SeqsUpTo({NameB, APad, NameA}, MaxCandidates)

SatLists ==
    {[k \in 1..n |-> Inline(IF k % 2 = 1 THEN NameA ELSE NameB)] : n \in 1..MaxSats}
    \cup {[k \in 1..n |-> Inline(NameA)] : n \in 2..MaxSats}

StationLists ==
    {[k \in 1..n |-> IF k % 2 = 1 THEN Station(StationG1, 0) ELSE Station(StationG2, 5)]
        : n \in 1..MaxStations}

Config(t0, w, link, min_dur, sats, stations) ==
    [time            |-> [start_utc |-> t0, end_utc |-> t0 + w],
     link            |-> link,
     analysis        |-> [min_pass_duration_s |-> min_dur],
     satellites      |-> sats,
     ground_stations |-> stations]

\* one pair, a long window, a collaborator that may return any stream
ScanConfigs ==
    {Config(t0, LongWindow, DefaultLink, m, <<Inline(NameA)>>, <<Station(StationG1, 0)>>)
        : t0 \in Starts, m \in MinDurations}

\* any number of pairs, a nominal collaborator, a window within the budget
CatalogConfigs ==
    {Config(DayTicks - 27, c[3], DefaultLink, 0, c[1], c[2])
        : c \in {x \in SatLists \X StationLists \X Windows :
                    Len(x[1]) * Len(x[2]) * x[3] <= WorkBudget}}

\* one satellite resolved against a tle_url source
ResolveConfigs ==
    {Config(DayTicks - 27, ShortWindow, link, 0, <<sc>>, <<Station(StationG1, 0)>>)
        : link \in Links,
          sc \in {Url(n, src) : n \in {NameA, PadA}, src \in Sources}
                 \cup {UrlNoName(src) : src \in Sources}}

Init ==
    /\ \/ cfg \in ScanConfigs /\ propagator = "anomalous"
       \/ cfg \in CatalogConfigs /\ propagator = "nominal"
       \/ cfg \in ResolveConfigs /\ propagator = "nominal"
    /\ pc = "make_satellite"
    /\ s = 1
    /\ g = 1
    /\ sat = NoSat
    /\ times = <<>>
    /\ events = <<>>
    /\ i = 0
    /\ rows = <<>>
    /\ origin = <<>>
    /\ df = EmptyFrame
    /\ passes_csv = NoFile
    /\ daily_csv = NoFile
    /\ daily_total = <<>>
    /\ plots = <<>>
    /\ stdout = <<>>
    /\ err = "none"

(***************************************************************************)
(* Actions.                                                                *)
(***************************************************************************)
min_dur_s == cfg.analysis.min_pass_duration_s
sat_cfg == cfg.satellites[s]
gs == cfg.ground_stations[g]

\* sat = make_satellite(sat_cfg, ts), the source returned no satellite:
\* RuntimeError leaves compute_passes and main
MakeSatelliteRaise ==
    /\ pc = "make_satellite"
    /\ MakeSatelliteRaises(sat_cfg)
    /\ err' = "RuntimeError"
    /\ pc' = "done"
    /\ UNCHANGED <<cfg, propagator, s, g, sat, times, events, i, rows, origin,
                   df, passes_csv, daily_csv, daily_total, plots, stdout>>

\* sat = make_satellite(sat_cfg, ts); the station loop starts
MakeSatellite ==
    /\ pc = "make_satellite"
    /\ ~MakeSatelliteRaises(sat_cfg)
    /\ sat' = make_satellite(sat_cfg)
    /\ g' = 1
    /\ pc' = "find_events"
    /\ UNCHANGED <<cfg, propagator, s, times, events, i, rows, origin,
                   df, passes_csv, daily_csv, daily_total, plots, stdout, err>>

\* times, events = sat.find_events(station, t0, t1, ...); i = 0
FindEvents ==
    /\ pc = "find_events"
    /\ \E n \in 0..MaxEvents, profile \in Profiles(propagator) :
         \E ev \in KindsOf(propagator, n) :
            LET ts == TimesOf(cfg.time.start_utc, profile, n)
            IN  /\ InWindow(ts, cfg.time.start_utc, cfg.time.end_utc)
                /\ times' = ts
                /\ events' = ev
    /\ i' = 0
    /\ pc' = "scan"
    /\ UNCHANGED <<cfg, propagator, s, g, sat, rows, origin,
                   df, passes_csv, daily_csv, daily_total, plots, stdout, err>>

\* a matched triple that clears the filter: rows.append({...}); i += 3
ScanEmit ==
    /\ pc = "scan"
    /\ LoopCond(events, i)
    /\ IsTriple(events, i)
    /\ ~TooShort(DurS(times, i), min_dur_s)
    /\ rows' = AppendRow(rows, PassRow(sat, gs, times, i, cfg.link))
    /\ origin' = AppendRow(origin, [sat |-> s, gs |-> g, idx |-> i,
                                    t_rise |-> times[i + 1], t_set |-> times[i + 3]])
    /\ i' = AfterTriple(i)
    /\ UNCHANGED <<cfg, propagator, pc, s, g, sat, times, events,
                   df, passes_csv, daily_csv, daily_total, plots, stdout, err>>

\* a matched triple shorter than the threshold: i += 3; continue
ScanShort ==
    /\ pc = "scan"
    /\ LoopCond(events, i)
    /\ IsTriple(events, i)
    /\ TooShort(DurS(times, i), min_dur_s)
    /\ i' = AfterTriple(i)
    /\ UNCHANGED <<cfg, propagator, pc, s, g, sat, times, events, rows, origin,
                   df, passes_csv, daily_csv, daily_total, plots, stdout, err>>

\* no triple at i: i += 1
ScanSkip ==
    /\ pc = "scan"
    /\ LoopCond(events, i)
    /\ ~IsTriple(events, i)
    /\ i' = AfterMismatch(i)
    /\ UNCHANGED <<cfg, propagator, pc, s, g, sat, times, events, rows, origin,
                   df, passes_csv, daily_csv, daily_total, plots, stdout, err>>

\* the while loop ends; the next ground station of the same satellite
NextStation ==
    /\ pc = "scan"
    /\ ~LoopCond(events, i)
    /\ g < Len(cfg.ground_stations)
    /\ g' = g + 1
    /\ pc' = "find_events"
    /\ UNCHANGED <<cfg, propagator, s, sat, times, events, i, rows, origin,
                   df, passes_csv, daily_csv, daily_total, plots, stdout, err>>

\* the while loop and the station loop end; the next satellite
NextSatellite ==
    /\ pc = "scan"
    /\ ~LoopCond(events, i)
    /\ g = Len(cfg.ground_stations)
    /\ s < Len(cfg.satellites)
    /\ s' = s + 1
    /\ pc' = "make_satellite"
    /\ UNCHANGED <<cfg, propagator, g, sat, times, events, i, rows, origin,
                   df, passes_csv, daily_csv, daily_total, plots, stdout, err>>

\* all loops end: df = pd.DataFrame(rows); the date columns unless df.empty;
\* compute_passes returns df to main
BuildDataFrame ==
    /\ pc = "scan"
    /\ ~LoopCond(events, i)
    /\ g = Len(cfg.ground_stations)
    /\ s = Len(cfg.satellites)
    /\ df' = IF DfEmpty(DataFrame(rows)) THEN DataFrame(rows)
             ELSE AddDateColumns(DataFrame(rows))
    /\ pc' = "main"
    /\ UNCHANGED <<cfg, propagator, s, g, sat, times, events, i, rows, origin,
                   passes_csv, daily_csv, daily_total, plots, stdout, err>>

\* main: if df.empty: print("No passes found. ..."); return
NoPassesFound ==
    /\ pc = "main"
    /\ DfEmpty(df)
    /\ stdout' = Append(stdout, "No passes found")
    /\ pc' = "done"
    /\ UNCHANGED <<cfg, propagator, s, g, sat, times, events, i, rows, origin,
                   df, passes_csv, daily_csv, daily_total, plots, err>>

\* main: make_outputs(df, outdir): passes.csv, daily_summary.csv, two plots
MakeOutputs ==
    /\ pc = "main"
    /\ ~DfEmpty(df)
    /\ passes_csv' = to_csv(df)
    /\ daily_csv' = [header |-> DailyColumns, lines |-> Daily(df)]
    /\ daily_total' = DailyTotal(Daily(df))
    /\ plots' = Plots(DailyTotal(Daily(df)))
    /\ stdout' = Append(stdout, "Saved")
    /\ pc' = "done"
    /\ UNCHANGED <<cfg, propagator, s, g, sat, times, events, i, rows, origin,
                   df, err>>

Next ==
    \/ MakeSatelliteRaise
    \/ MakeSatellite
    \/ FindEvents
    \/ ScanEmit
    \/ ScanShort
    \/ ScanSkip
    \/ NextStation
    \/ NextSatellite
    \/ BuildDataFrame
    \/ NoPassesFound
    \/ MakeOutputs

Spec == Init /\ [][Next]_vars

(***************************************************************************)
(* Properties.                                                             *)
(***************************************************************************)
\* positions of origin that belong to the pair being scanned
Mine == {k \in 1..Len(origin) : origin[k].sat = s /\ origin[k].gs = g}

\* event indices (from 0) holding rise, culmination, set with
\* set - rise >= min_pass_duration_s
ValidIdx ==
    {j \in 0..(Len(events) - 3) :
        /\ events[j + 1] = RISE /\ events[j + 2] = CULMINATION /\ events[j + 3] = SET
        /\ times[j + 3] - times[j + 1] >= min_dur_s}

EmittedAt(j) == Cardinality({k \in Mine : origin[k].idx = j})

\* C1: while a pair is scanned, the scan has emitted exactly one Pass for each
\* index below the cursor that holds a rise, culmination, set triple with
\* set - rise >= min_pass_duration_s and none for any other index; when the
\* loop ends every such index of the stream has its one Pass.
C1_ExactlyTheValidTriples ==
    pc = "scan" =>
        /\ Len(rows) = Len(origin)
        /\ \A k \in Mine : origin[k].idx \in 0..(Len(events) - 1)
        /\ \A j \in 0..(Len(events) - 1) :
              EmittedAt(j) = IF j \in ValidIdx /\ j < i THEN 1 ELSE 0
        /\ ~LoopCond(events, i) => \A j \in ValidIdx : EmittedAt(j) = 1

\* the stream [rise, rise, culmination, set] scanned to its end, with its one
\* Pass taken from the second rise
C1_Witness ==
    /\ pc = "scan"
    /\ events = <<RISE, RISE, CULMINATION, SET>>
    /\ ~LoopCond(events, i)
    /\ \E k \in Mine : origin[k].idx = 1

C3_NegativeDurationRaises ==
    [][(pc = "scan" /\ LoopCond(events, i) /\ IsTriple(events, i)
            /\ DurS(times, i) < 0)
        => (err' = "InvalidEventOrdering" /\ rows' = rows)]_vars

\* the catalog rows of a set of positions, summed over one column
RECURSIVE SumOver(_, _)
SumOver(S, f) ==
    IF S = {} THEN 0
    ELSE LET x == CHOOSE y \in S : TRUE IN f[x] + SumOver(S \ {x}, f)

Catalog == df.rows
DailyRows == daily_csv.lines
InGroup(d) ==
    {k \in 1..Len(Catalog) :
        /\ Catalog[k].date_utc = d.date_utc
        /\ Catalog[k].satellite = d.satellite
        /\ Catalog[k].station = d.station}
OnDate(d) == {k \in 1..Len(Catalog) : Catalog[k].date_utc = d}
GroupsOnDate(d) == {n \in 1..Len(DailyRows) : DailyRows[n].date_utc = d}
DurationCol == [k \in 1..Len(Catalog) |-> Catalog[k].duration_s]
DataCol == [k \in 1..Len(Catalog) |-> Catalog[k].data_mb_est]

\* C4: once make_outputs has run, every Pass lies in exactly one
\* (date_utc, satellite, station) group and one date_utc group; each group's
\* total_contact_s, total_data_mb and passes are the sum of duration_s, the
\* sum of data_mb_est and the count of exactly the passes with its key; each
\* date total is the sum over that date's groups; the passes counts add up
\* to the catalog size.
C4_AggregationPartitions ==
    (pc = "done" /\ passes_csv # NoFile) =>
        /\ Len(Catalog) = Len(rows)
        /\ \A k \in 1..Len(Catalog) :
              /\ Cardinality({n \in 1..Len(DailyRows) : k \in InGroup(DailyRows[n])}) = 1
              /\ Cardinality({n \in 1..Len(daily_total) :
                                 daily_total[n].date_utc = Catalog[k].date_utc}) = 1
        /\ \A n \in 1..Len(DailyRows) :
              /\ DailyRows[n].passes = Cardinality(InGroup(DailyRows[n]))
              /\ DailyRows[n].passes >= 1
              /\ DailyRows[n].total_contact_s = SumOver(InGroup(DailyRows[n]), DurationCol)
              /\ DailyRows[n].total_data_mb = SumOver(InGroup(DailyRows[n]), DataCol)
        /\ \A n \in 1..Len(daily_total) :
              LET d == daily_total[n].date_utc
              IN  /\ daily_total[n].passes =
                        SumOver(GroupsOnDate(d), [m \in 1..Len(DailyRows) |-> DailyRows[m].passes])
                  /\ daily_total[n].total_contact_s =
                        SumOver(GroupsOnDate(d),
                                [m \in 1..Len(DailyRows) |-> DailyRows[m].total_contact_s])
                  /\ daily_total[n].total_data_mb =
                        SumOver(GroupsOnDate(d),
                                [m \in 1..Len(DailyRows) |-> DailyRows[m].total_data_mb])
                  /\ daily_total[n].passes = Cardinality(OnDate(d))
                  /\ daily_total[n].total_contact_s = SumOver(OnDate(d), DurationCol)
        /\ SumOver(1..Len(DailyRows), [m \in 1..Len(DailyRows) |-> DailyRows[m].passes])
              = Len(rows)
        /\ SumOver(1..Len(daily_total), [m \in 1..Len(daily_total) |-> daily_total[m].passes])
              = Len(rows)

\* make_outputs has aggregated a catalog with a group of two passes, a second
\* group on the same date and a second date
C4_Witness ==
    /\ pc = "done"
    /\ passes_csv # NoFile
    /\ Len(daily_total) >= 2
    /\ \E n \in 1..Len(DailyRows) : DailyRows[n].passes >= 2
    /\ \E n \in 1..Len(daily_total) :
          Cardinality(GroupsOnDate(daily_total[n].date_utc)) >= 2

\* C5: every Pass has duration_s equal to set - rise of its own triple (to
\* the one decimal the catalog keeps) and that duration is >= 0.
C5_DurationIsSetMinusRiseAndNonNegative ==
    /\ Len(rows) = Len(origin)
    /\ \A k \in 1..Len(rows) :
          /\ rows[k].duration_s = Round1(origin[k].t_set - origin[k].t_rise)
          /\ rows[k].duration_s >= 0

\* C6: the scan of any stream ends without raising: every iteration moves
\* the cursor forward by 1 or by 3, takes place only while at least 3 events
\* remain at or after the cursor (so events[i + 2] exists), raises nothing,
\* and the loop is left; a stream of fewer than 3 events, or the fragment
\* after the last complete triple, yields no Pass.
C6_ScanInv ==
    pc = "scan" =>
        /\ 0 <= i /\ i <= Len(events)
        /\ err = "none"
        /\ LoopCond(events, i) => (i + 2 <= Len(events) - 1)
        /\ \A k \in Mine : origin[k].idx + 2 <= Len(events) - 1
        /\ Len(events) < 3 => Mine = {}
        /\ ENABLED (ScanEmit \/ ScanShort \/ ScanSkip \/ NextStation
                      \/ NextSatellite \/ BuildDataFrame)

\* an iteration: the events left at or after the cursor, Len(events) - i,
\* are at least 3 before it and fewer after it
C6_ScanStep ==
    (pc = "scan" /\ pc' = "scan") =>
        /\ Len(events) - i >= 3
        /\ i' \in {i + 1, i + 3}
        /\ Len(events') - i' < Len(events) - i
        /\ Len(events') - i' >= 0
        /\ err' = "none"
        /\ events' = events

\* leaving the loop: fewer than 3 events remain at or after the cursor
C6_ScanExit ==
    (pc = "scan" /\ pc' # "scan") => (Len(events) - i < 3 /\ err' = "none" /\ rows' = rows)

C6_ScanTerminates ==
    []C6_ScanInv /\ [][C6_ScanStep /\ C6_ScanExit]_vars

\* a stream ending in an unmatched rise scanned to its end, after a Pass
C6_Witness ==
    /\ pc = "scan"
    /\ ~LoopCond(events, i)
    /\ Len(events) >= 4
    /\ events[Len(events)] = RISE
    /\ Mine # {}
    /\ i = Len(events) - 1

\* C7: the catalog is ordered satellite-major, station-minor, then by rise
\* event index within a pair, each row carries its pair's names, and a step
\* of the program only ever appends to it.
C7_Order ==
    /\ Len(rows) = Len(origin)
    /\ \A a, b \in 1..Len(origin) :
          a < b =>
             \/ origin[a].sat < origin[b].sat
             \/ origin[a].sat = origin[b].sat /\ origin[a].gs < origin[b].gs
             \/ /\ origin[a].sat = origin[b].sat
                /\ origin[a].gs = origin[b].gs
                /\ origin[a].idx < origin[b].idx
                /\ propagator = "nominal" => origin[a].t_rise < origin[b].t_rise
    /\ \A k \in 1..Len(rows) :
          /\ rows[k].station = cfg.ground_stations[origin[k].gs].name
          /\ ~cfg.satellites[origin[k].sat].has_url =>
                rows[k].satellite = cfg.satellites[origin[k].sat].name
          /\ rows[k].aos_utc = UtcIso(origin[k].t_rise)

C7_AppendOnly ==
    /\ Len(rows') >= Len(rows)
    /\ SubSeq(rows', 1, Len(rows)) = rows

C7_CatalogOrder == []C7_Order /\ [][C7_AppendOnly]_vars

\* two passes of the first station followed by one of the second
C7_Witness ==
    /\ Len(origin) >= 3
    /\ origin[1].gs = 1 /\ origin[2].gs = 1 /\ origin[2].idx > origin[1].idx
    /\ origin[3].gs = 2

\* C8: a run that ends without an exception and without a Pass has printed
\* the guidance message and written nothing; a run that ends with Passes has
\* written passes.csv, daily_summary.csv and the two plots; make_outputs
\* never runs on an empty catalog.
C8_EmptyCatalogIsNotAnError ==
    /\ (passes_csv # NoFile \/ daily_csv # NoFile \/ plots # <<>>) => rows # <<>>
    /\ pc \in {"main", "done"} => (DfEmpty(df) <=> rows = <<>>)
    /\ (pc = "done" /\ err = "none" /\ rows = <<>>) =>
          /\ stdout = <<"No passes found">>
          /\ passes_csv = NoFile /\ daily_csv = NoFile /\ plots = <<>>
          /\ daily_total = <<>>
    /\ (pc = "done" /\ err = "none" /\ rows # <<>>) =>
          /\ stdout = <<"Saved">>
          /\ passes_csv # NoFile /\ daily_csv # NoFile /\ Len(plots) = 2
    /\ (pc = "main" /\ rows = <<>>) => err = "none"

\* a run over a non-empty stream that found no Pass and ended normally
C8_Witness ==
    /\ pc = "done"
    /\ err = "none"
    /\ rows = <<>>
    /\ events # <<>>
    /\ stdout = <<"No passes found">>

\* candidates of the configured tle_url source whose stripped name equals the
\* stripped configured name
Matching(c) ==
    {k \in 1..Len(c.tle_file) : strip(c.tle_file[k]) = strip(GetName(c, EmptyName))}

\* C9: against a URL source of two or more candidates make_satellite returns
\* the first candidate whose stripped name equals the stripped configured
\* name, or the first candidate when none does, and raises nothing;
\* RuntimeError is raised only for a source of zero candidates.
C9_Resolution ==
    /\ (pc \in {"find_events", "scan"} /\ sat_cfg.has_url /\ Len(sat_cfg.tle_file) >= 2) =>
          /\ err = "none"
          /\ sat.entry \in 1..Len(sat_cfg.tle_file)
          /\ sat.name = sat_cfg.tle_file[sat.entry]
          /\ IF Matching(sat_cfg) # {}
             THEN sat.entry \in Matching(sat_cfg)
                  /\ \A k \in Matching(sat_cfg) : sat.entry <= k
             ELSE sat.entry = 1
    /\ err # "none" =>
          (err = "RuntimeError" /\ sat_cfg.has_url /\ sat_cfg.tle_file = <<>>)
    /\ (pc = "make_satellite" /\ sat_cfg.has_url /\ sat_cfg.tle_file = <<>>) =>
          ENABLED MakeSatelliteRaise

\* a padded configured name resolved to the second of three candidates, the
\* first whose stripped name matches
C9_Witness ==
    /\ pc = "scan"
    /\ sat_cfg.has_url
    /\ Len(sat_cfg.tle_file) = 3
    /\ sat_cfg.name = PadA
    /\ Cardinality(Matching(sat_cfg)) = 2
    /\ sat.entry = 2
    /\ sat.name = APad

\* C10: passes.csv has one row per Pass and exactly the ten columns
\* satellite, station, mask_deg, aos_utc, los_utc, duration_s, max_elev_deg,
\* downlink_mbps, efficiency, data_mb_est.
C10_PassesCsvHasTenColumns ==
    passes_csv # NoFile =>
        /\ Len(passes_csv.lines) = Len(rows)
        /\ passes_csv.header = TenColumns
        /\ \A k \in 1..Len(passes_csv.lines) : Len(passes_csv.lines[k]) = Len(TenColumns)

====
